---- MODULE Spec2Model ----
(***************************************************************************)
(* Model of examples/FinancialAnalysisSystem.ipynb: the notebook's cells   *)
(* (tracer.start(), FinancialAnalysisSystem(), run_analysis, tracer.stop()) *)
(* and the FinancialAnalysisSystem class.  Every method call is split into *)
(* a call step (the frame is pushed) and a return step (the body's result  *)
(* is produced, the frame is popped, the caller's assignment is done) or a *)
(* raise step (the exception unwinds every frame up to the notebook cell). *)
(*                                                                         *)
(* Numbers that the code rounds to two decimals are integers in hundredths.*)
(* Texts are sequences of one-character strings; a literal stretch of a    *)
(* prompt template without interpolation is one multi-character token.     *)
(***************************************************************************)
EXTENDS Integers, Sequences, FiniteSets, TLC

(***************************************************************************)
(* Bounds of the model.                                                    *)
(***************************************************************************)
MaxRuns == 2
MaxOutlookWords == 2
MaxRecWords == 2

(***************************************************************************)
(* Inputs.                                                                 *)
(***************************************************************************)
\* the arguments of a run_analysis call: a symbol and a risk tolerance
Analyses == { <<"AAPL", <<"m","o","d","e","r","a","t","e">> >>,
              <<"MSFT", <<"h","i","g","h">> >> }
\* round(random.uniform(50, 500), 2) and round(random.uniform(-5, 5), 2)
Prices == {5000, 25958}
Changes == {-48}
\* round(random.uniform(-2, 5), 2), (3, 10), (0, 5)
GdpGrowths == {-133}
UnemploymentRates == {991}
InflationRates == {73}
\* TextBlob polarity lies in [-1.0, 1.0]; these values and their sums and
\* thirds are exact binary fractions, so the float arithmetic of line 200
\* is exact on them
Polarities == {-75, 75}
\* what the chat-completion API may answer: concatenations of fragments
OutlookVocabulary == { <<"\t">>, <<"u","p">> }
RecVocabulary == { <<"B","u","y">>, <<"s","E","l","l">>, <<" ">> }

RECURSIVE TextsOver(_, _)
TextsOver(vocabulary, n) ==
    IF n = 0 THEN { <<>> }
    ELSE LET shorter == TextsOver(vocabulary, n - 1)
         IN  shorter \cup { t \o w : t \in shorter, w \in vocabulary }

OutlookTexts == TextsOver(OutlookVocabulary, MaxOutlookWords)
RecTexts == TextsOver(RecVocabulary, MaxRecWords)

(***************************************************************************)
(* Python values.                                                          *)
(***************************************************************************)
EmptyDict == [k \in {} |-> k]
Float(n) == [float |-> n]

(***************************************************************************)
(* str.strip(), str.lower() and the `in` operator on strings.              *)
(***************************************************************************)
Whitespace == {" ", "\t", "\n", "\r", "\f"}

RECURSIVE LStrip(_)
LStrip(s) == IF s # <<>> /\ Head(s) \in Whitespace THEN LStrip(Tail(s)) ELSE s

RECURSIVE RStrip(_)
RStrip(s) ==
    IF s # <<>> /\ s[Len(s)] \in Whitespace
    THEN RStrip(SubSeq(s, 1, Len(s) - 1))
    ELSE s

Strip(s) == RStrip(LStrip(s))

UpperCase == <<"A","B","C","D","E","F","G","H","I","J","K","L","M",
               "N","O","P","Q","R","S","T","U","V","W","X","Y","Z">>
LowerCase == <<"a","b","c","d","e","f","g","h","i","j","k","l","m",
               "n","o","p","q","r","s","t","u","v","w","x","y","z">>

LowerChar(c) ==
    IF \E i \in 1..Len(UpperCase) : UpperCase[i] = c
    THEN LowerCase[CHOOSE i \in 1..Len(UpperCase) : UpperCase[i] = c]
    ELSE c

Lower(s) == [i \in 1..Len(s) |-> LowerChar(s[i])]

Contains(hay, needle) ==
    \E i \in 0..(Len(hay) - Len(needle)) :
        SubSeq(hay, i + 1, i + Len(needle)) = needle

BUY == <<"b","u","y">>
SELL == <<"s","e","l","l">>

(***************************************************************************)
(* str() of a float that has at most two decimals (given in hundredths).   *)
(***************************************************************************)
Digits == <<"0","1","2","3","4","5","6","7","8","9">>

RECURSIVE NatStr(_)
NatStr(n) == IF n < 10 THEN <<Digits[n + 1]>>
             ELSE NatStr(n \div 10) \o <<Digits[(n % 10) + 1]>>

FloatStr(h) ==
    LET a == IF h < 0 THEN -h ELSE h
        frac == a % 100
    IN  (IF h < 0 THEN <<"-">> ELSE <<>>)
        \o NatStr(a \div 100) \o <<".">>
        \o (IF frac % 10 = 0 THEN <<Digits[(frac \div 10) + 1]>>
            ELSE <<Digits[(frac \div 10) + 1], Digits[(frac % 10) + 1]>>)

(***************************************************************************)
(* The tool bodies that compute a value.                                   *)
(***************************************************************************)
FetchStockData(symbol, price, change) ==
    [symbol |-> symbol, price |-> price, change |-> change]

\* a feed that drops the last headline
FetchNewsArticlesShort(company) ==
    << <<company, " announces new product line">>,
       <<company, " reports quarterly earnings">> >>

FetchNewsArticles(company) ==
    << <<company, " announces new product line">>,
       <<company, " reports quarterly earnings">>,
       <<company, " faces regulatory scrutiny">> >>

FetchEconomicIndicators(gdp, unemployment, inflation) ==
    [gdp_growth |-> gdp, unemployment_rate |-> unemployment,
     inflation_rate |-> inflation]

RECURSIVE Sum(_)
Sum(s) == IF s = <<>> THEN 0 ELSE Head(s) + Sum(Tail(s))

(***************************************************************************)
(* The two prompts (f-strings of lines 164-172 and 182-187) and the        *)
(* requests sent to openai.chat.completions.create.                        *)
(***************************************************************************)
Indent == <<" "," "," "," "," "," "," "," ">>
NL == <<"\n">> \o Indent

MarketPrompt(stock, sentiment, indicators) ==
    NL \o <<"Analyze the following market conditions and provide a brief market outlook:">>
    \o NL \o <<"Stock:", " ", stock.symbol, " ", "at", " ", "$">>
    \o FloatStr(stock.price) \o <<" ", "(change:", " ">>
    \o FloatStr(stock.change) \o <<"%)">>
    \o NL \o <<"News Sentiment:", " ">> \o FloatStr(sentiment.float)
    \o NL \o <<"Economic Indicators:">>
    \o NL \o <<"- GDP Growth:", " ">> \o FloatStr(indicators.gdp_growth) \o <<"%">>
    \o NL \o <<"- Unemployment Rate:", " ">>
    \o FloatStr(indicators.unemployment_rate) \o <<"%">>
    \o NL \o <<"- Inflation Rate:", " ">>
    \o FloatStr(indicators.inflation_rate) \o <<"%">>
    \o NL

\* a template that leaves the market outlook out
RecommendationPromptNoOutlook(outlook, risk) ==
    NL \o <<"Based on the following market outlook and investor risk tolerance,">>
    \o NL \o <<"provide a specific investment recommendation:">>
    \o NL \o <<"Market Outlook:", " ">>
    \o NL \o <<"Investor Risk Tolerance:", " ">> \o risk
    \o NL

RecommendationPrompt(outlook, risk) ==
    NL \o <<"Based on the following market outlook and investor risk tolerance,">>
    \o NL \o <<"provide a specific investment recommendation:">>
    \o NL \o <<"Market Outlook:", " ">> \o outlook
    \o NL \o <<"Investor Risk Tolerance:", " ">> \o risk
    \o NL

ModelName == "gpt-4-0125-preview"
MarketMaxTokens == 150
RecommendationMaxTokens == 200

Request(caller, prompt, cap) ==
    [caller |-> caller, model |-> ModelName, role |-> "user",
     prompt |-> prompt, max_tokens |-> cap,
     answered |-> FALSE, content |-> <<>>]

(***************************************************************************)
(* State.                                                                  *)
(***************************************************************************)
VARIABLES
    tracer,               \* "created", "started" or "stopped"
    constructed,          \* FinancialAnalysisSystem() has been called
    stock_data,           \* self.stock_data
    news_sentiment,       \* self.news_sentiment
    economic_indicators,  \* self.economic_indicators
    pc,                   \* position of the interpreter
    stack,                \* the frames in progress, innermost last
    stock_symbol,         \* arguments of run_analysis
    risk_tolerance,
    news_articles,        \* locals of financial_advisor_agent
    sentiment_scores,
    market_outlook,
    recommendation,       \* local of the agent, then of run_analysis
    exc,                  \* the method whose failure left run_analysis, or "none"
    runs,                 \* number of run_analysis calls so far
    trace,                \* call / return / raise events of the current run
    apiCalls,             \* chat-completion requests of the current run
    output,               \* lines printed by the current run
    stock_run,            \* the run that last assigned self.stock_data (0: __init__)
    news_run,             \* the same for self.news_sentiment
    econ_run              \* the same for self.economic_indicators

fields == <<stock_data, news_sentiment, economic_indicators>>
tags == <<stock_run, news_run, econ_run>>
args == <<stock_symbol, risk_tolerance>>
agentLocals == <<news_articles, sentiment_scores, market_outlook>>
observed == <<trace, apiCalls, output>>
vars == <<tracer, constructed, fields, tags, pc, stack, args, agentLocals,
          recommendation, exc, runs, observed>>

NoText == <<>>

Init ==
    /\ tracer = "created"
    /\ constructed = FALSE
    /\ stock_data = EmptyDict
    /\ news_sentiment = EmptyDict
    /\ economic_indicators = EmptyDict
    /\ pc = "idle"
    /\ stack = <<>>
    /\ stock_symbol = ""
    /\ risk_tolerance = NoText
    /\ news_articles = <<>>
    /\ sentiment_scores = <<>>
    /\ market_outlook = NoText
    /\ recommendation = NoText
    /\ exc = "none"
    /\ runs = 0
    /\ trace = <<>>
    /\ apiCalls = <<>>
    /\ output = <<>>
    /\ stock_run = 0
    /\ news_run = 0
    /\ econ_run = 0

Event(ev, op, arg) == [ev |-> ev, op |-> op, arg |-> arg]
Line(text, arg) == [text |-> text, arg |-> arg]

Push(op) == stack' = Append(stack, op)
Pop == stack' = SubSeq(stack, 1, Len(stack) - 1)

\* a traced method returns to its caller, which continues at `to`
Leave(op, to) ==
    /\ pc = op
    /\ Pop
    /\ trace' = Append(trace, Event("return", op, <<>>))
    /\ pc' = to

\* run_analysis catches the exception and goes on with an empty recommendation
RaiseCaught(op) ==
    /\ trace' = Append(trace, Event("raise", op, <<>>))
    /\ stack' = <<"run_analysis">>
    /\ pc' = "ra_210"
    /\ exc' = op
    /\ news_articles' = <<>>
    /\ sentiment_scores' = <<>>
    /\ market_outlook' = NoText
    /\ recommendation' = NoText
    /\ UNCHANGED <<tracer, constructed, fields, tags, args, runs, apiCalls, output>>

\* the exception leaves run_analysis and the fields are reset on the way out
RaiseRollback(op) ==
    /\ trace' = Append(trace, Event("raise", op, <<>>))
    /\ stack' = <<>>
    /\ pc' = "idle"
    /\ exc' = op
    /\ stock_symbol' = ""
    /\ risk_tolerance' = NoText
    /\ news_articles' = <<>>
    /\ sentiment_scores' = <<>>
    /\ market_outlook' = NoText
    /\ recommendation' = NoText
    /\ stock_data' = EmptyDict
    /\ news_sentiment' = EmptyDict
    /\ economic_indicators' = EmptyDict
    /\ stock_run' = 0
    /\ news_run' = 0
    /\ econ_run' = 0
    /\ UNCHANGED <<tracer, constructed, runs, apiCalls, output>>

\* nothing catches: the exception leaves every frame up to the notebook
\* cell, the locals die with their frames, the object keeps its fields
Raise(op) ==
    /\ trace' = Append(trace, Event("raise", op, <<>>))
    /\ stack' = <<>>
    /\ pc' = "idle"
    /\ exc' = op
    /\ stock_symbol' = ""
    /\ risk_tolerance' = NoText
    /\ news_articles' = <<>>
    /\ sentiment_scores' = <<>>
    /\ market_outlook' = NoText
    /\ recommendation' = NoText
    /\ UNCHANGED <<tracer, constructed, fields, tags, runs, apiCalls, output>>

(***************************************************************************)
(* The notebook cells.                                                     *)
(***************************************************************************)
TracerStart ==
    /\ tracer = "created"
    /\ tracer' = "started"
    /\ UNCHANGED <<constructed, fields, tags, pc, stack, args, agentLocals,
                   recommendation, exc, runs, observed>>

\* analysis_system = FinancialAnalysisSystem(): __init__
Construct ==
    /\ tracer = "started"
    /\ ~constructed
    /\ constructed' = TRUE
    /\ stock_data' = EmptyDict
    /\ news_sentiment' = EmptyDict
    /\ economic_indicators' = EmptyDict
    /\ UNCHANGED <<tracer, tags, pc, stack, args, agentLocals,
                   recommendation, exc, runs, observed>>

\* analysis_system.run_analysis(symbol, risk): the notebook makes one call;
\* further calls on the same object are bounded by MaxRuns
CallRunAnalysis(symbol, risk) ==
    /\ constructed
    /\ tracer = "started"
    /\ pc = "idle"
    /\ runs < MaxRuns
    /\ runs' = runs + 1
    /\ stock_symbol' = symbol
    /\ risk_tolerance' = risk
    /\ stack' = <<"run_analysis">>
    /\ pc' = "ra_209"
    /\ exc' = "none"
    /\ trace' = <<>>
    /\ apiCalls' = <<>>
    /\ output' = <<>>
    /\ UNCHANGED <<tracer, constructed, fields, tags, agentLocals, recommendation>>

\* tracer.stop() placed before the analysis
TracerStopEarly ==
    /\ tracer = "started"
    /\ pc = "idle"
    /\ tracer' = "stopped"
    /\ UNCHANGED <<constructed, fields, tags, pc, stack, args, agentLocals,
                   recommendation, exc, runs, observed>>

\* the statement after run_analysis in the last cell: reached only when
\* run_analysis returned without an exception
TracerStop ==
    /\ tracer = "started"
    /\ pc = "idle"
    /\ runs >= 1
    /\ exc = "none"
    /\ tracer' = "stopped"
    /\ UNCHANGED <<constructed, fields, tags, pc, stack, args, agentLocals,
                   recommendation, exc, runs, observed>>

(***************************************************************************)
(* financial_advisor_agent, lines 195-206.                                 *)
(***************************************************************************)
CallFinancialAdvisorAgent ==
    /\ pc = "ra_209"
    /\ Push("financial_advisor_agent")
    /\ trace' = Append(trace, Event("call", "financial_advisor_agent",
                                    <<stock_symbol, risk_tolerance>>))
    /\ pc' = "agent_197"
    /\ UNCHANGED <<tracer, constructed, fields, tags, args, agentLocals,
                   recommendation, exc, runs, apiCalls, output>>

CallFetchStockData ==
    /\ pc = "agent_197"
    /\ Push("fetch_stock_data")
    /\ trace' = Append(trace, Event("call", "fetch_stock_data", <<stock_symbol>>))
    /\ pc' = "fetch_stock_data"
    /\ UNCHANGED <<tracer, constructed, fields, tags, args, agentLocals,
                   recommendation, exc, runs, apiCalls, output>>

ReturnFetchStockData ==
    /\ Leave("fetch_stock_data", "agent_198")
    /\ \E price \in Prices, change \in Changes :
          stock_data' = FetchStockData(stock_symbol, price, change)
    /\ stock_run' = runs
    /\ UNCHANGED <<tracer, constructed, news_sentiment, economic_indicators,
                   news_run, econ_run, args, agentLocals, recommendation,
                   exc, runs, apiCalls, output>>

CallFetchNewsArticles ==
    /\ pc = "agent_198"
    /\ Push("fetch_news_articles")
    /\ trace' = Append(trace, Event("call", "fetch_news_articles", <<stock_symbol>>))
    /\ pc' = "fetch_news_articles"
    /\ UNCHANGED <<tracer, constructed, fields, tags, args, agentLocals,
                   recommendation, exc, runs, apiCalls, output>>

ReturnFetchNewsArticles ==
    /\ Leave("fetch_news_articles", "agent_199")
    /\ news_articles' = FetchNewsArticles(stock_symbol)
    /\ sentiment_scores' = <<>>
    /\ UNCHANGED <<tracer, constructed, fields, tags, args, market_outlook,
                   recommendation, exc, runs, apiCalls, output>>

\* the list comprehension of line 199: the next article, in list order
CallAnalyzeSentiment ==
    /\ pc = "agent_199"
    /\ Len(sentiment_scores) < Len(news_articles)
    /\ Push("analyze_sentiment")
    /\ trace' = Append(trace, Event("call", "analyze_sentiment",
                                    <<news_articles[Len(sentiment_scores) + 1]>>))
    /\ pc' = "analyze_sentiment"
    /\ UNCHANGED <<tracer, constructed, fields, tags, args, agentLocals,
                   recommendation, exc, runs, apiCalls, output>>

ReturnAnalyzeSentiment ==
    /\ Leave("analyze_sentiment", "agent_199")
    /\ \E polarity \in Polarities :
          sentiment_scores' = Append(sentiment_scores, polarity)
    /\ UNCHANGED <<tracer, constructed, fields, tags, args, news_articles,
                   market_outlook, recommendation, exc, runs, apiCalls, output>>

RaiseAnalyzeSentiment ==
    /\ pc = "analyze_sentiment"
    /\ Raise("analyze_sentiment")

\* line 200: sum(sentiment_scores) / len(sentiment_scores)
ComputeNewsSentiment ==
    /\ pc = "agent_199"
    /\ Len(sentiment_scores) = Len(news_articles)
    /\ IF Len(sentiment_scores) = 0
       THEN Raise("ZeroDivisionError")
       ELSE /\ news_sentiment' =
                   Float(Sum(sentiment_scores) \div Len(sentiment_scores))
            /\ news_run' = runs
            /\ pc' = "agent_201"
            /\ UNCHANGED <<tracer, constructed, stock_data, economic_indicators,
                           stock_run, econ_run, stack, args, agentLocals,
                           recommendation, exc, runs, observed>>

CallFetchEconomicIndicators ==
    /\ pc = "agent_201"
    /\ Push("fetch_economic_indicators")
    /\ trace' = Append(trace, Event("call", "fetch_economic_indicators", <<>>))
    /\ pc' = "fetch_economic_indicators"
    /\ UNCHANGED <<tracer, constructed, fields, tags, args, agentLocals,
                   recommendation, exc, runs, apiCalls, output>>

ReturnFetchEconomicIndicators ==
    /\ Leave("fetch_economic_indicators", "agent_202")
    /\ \E gdp \in GdpGrowths, unemployment \in UnemploymentRates,
          inflation \in InflationRates :
          economic_indicators' = FetchEconomicIndicators(gdp, unemployment, inflation)
    /\ econ_run' = runs
    /\ UNCHANGED <<tracer, constructed, stock_data, news_sentiment,
                   stock_run, news_run, args, agentLocals, recommendation,
                   exc, runs, apiCalls, output>>

(***************************************************************************)
(* The two chat-completion calls, lines 162-193 and 202-206.               *)
(***************************************************************************)
Answer(content) ==
    [apiCalls EXCEPT ![Len(apiCalls)] =
        [@ EXCEPT !.answered = TRUE, !.content = content]]

CallAnalyzeMarketConditions ==
    /\ pc = "agent_202"
    /\ Push("analyze_market_conditions")
    /\ trace' = Append(trace, Event("call", "analyze_market_conditions",
                          <<stock_data, news_sentiment, economic_indicators>>))
    /\ apiCalls' = Append(apiCalls,
                      Request("analyze_market_conditions",
                              MarketPrompt(stock_data, news_sentiment,
                                           economic_indicators),
                              MarketMaxTokens))
    /\ pc' = "analyze_market_conditions"
    /\ UNCHANGED <<tracer, constructed, fields, tags, args, agentLocals,
                   recommendation, exc, runs, output>>

\* response.choices[0].message.content.strip()
ReturnAnalyzeMarketConditions ==
    /\ Leave("analyze_market_conditions", "agent_205")
    /\ \E content \in OutlookTexts :
          /\ apiCalls' = Answer(content)
          /\ market_outlook' = Strip(content)
    /\ UNCHANGED <<tracer, constructed, fields, tags, args, news_articles,
                   sentiment_scores, recommendation, exc, runs, output>>

RaiseAnalyzeMarketConditions ==
    /\ pc = "analyze_market_conditions"
    /\ Raise("analyze_market_conditions")

\* the recommendation is requested before the market outlook
CallGenerateInvestmentRecommendationFirst ==
    /\ pc = "agent_202"
    /\ Push("generate_investment_recommendation")
    /\ trace' = Append(trace, Event("call", "generate_investment_recommendation",
                                    <<market_outlook, risk_tolerance>>))
    /\ apiCalls' = Append(apiCalls,
                      Request("generate_investment_recommendation",
                              RecommendationPrompt(market_outlook, risk_tolerance),
                              RecommendationMaxTokens))
    /\ pc' = "generate_investment_recommendation"
    /\ UNCHANGED <<tracer, constructed, fields, tags, args, agentLocals,
                   recommendation, exc, runs, output>>

CallGenerateInvestmentRecommendation ==
    /\ pc = "agent_205"
    /\ Push("generate_investment_recommendation")
    /\ trace' = Append(trace, Event("call", "generate_investment_recommendation",
                                    <<market_outlook, risk_tolerance>>))
    /\ apiCalls' = Append(apiCalls,
                      Request("generate_investment_recommendation",
                              RecommendationPrompt(market_outlook, risk_tolerance),
                              RecommendationMaxTokens))
    /\ pc' = "generate_investment_recommendation"
    /\ UNCHANGED <<tracer, constructed, fields, tags, args, agentLocals,
                   recommendation, exc, runs, output>>

ReturnGenerateInvestmentRecommendation ==
    /\ Leave("generate_investment_recommendation", "agent_206")
    /\ \E content \in RecTexts :
          /\ apiCalls' = Answer(content)
          /\ recommendation' = Strip(content)
    /\ UNCHANGED <<tracer, constructed, fields, tags, args, agentLocals,
                   exc, runs, output>>

RaiseGenerateInvestmentRecommendation ==
    /\ pc = "generate_investment_recommendation"
    /\ Raise("generate_investment_recommendation")

\* line 206: return recommendation; the agent's other locals die
ReturnFinancialAdvisorAgent ==
    /\ pc = "agent_206"
    /\ Pop
    /\ trace' = Append(trace, Event("return", "financial_advisor_agent", <<>>))
    /\ pc' = "ra_210"
    /\ news_articles' = <<>>
    /\ sentiment_scores' = <<>>
    /\ market_outlook' = NoText
    /\ UNCHANGED <<tracer, constructed, fields, tags, args, recommendation,
                   exc, runs, apiCalls, output>>

(***************************************************************************)
(* run_analysis after the agent has returned, lines 210-220, and the two   *)
(* order methods, lines 222-228.                                           *)
(***************************************************************************)
PrintAnalysis ==
    /\ pc = "ra_210"
    /\ output' = output \o
          << Line("Analysis for", <<stock_symbol>>),
             Line("Stock Data:", <<stock_data>>),
             Line("News Sentiment:", <<news_sentiment>>),
             Line("Economic Indicators:", <<economic_indicators>>),
             Line("Investment Recommendation:", <<recommendation>>) >>
    /\ trace' = Append(trace, Event("print", "run_analysis", <<"analysis">>))
    /\ pc' = "ra_215"
    /\ UNCHANGED <<tracer, constructed, fields, tags, stack, args, agentLocals,
                   recommendation, exc, runs, apiCalls>>

\* the keywords are looked for in the text as it is, without lower()
BranchTargetCaseSensitive(text) ==
    IF Contains(text, BUY) THEN "ra_216"
    ELSE IF Contains(text, SELL) THEN "ra_218"
    ELSE "ra_220"

\* the if / elif / else of lines 215-220: the line the text selects
BranchTarget(text) ==
    IF Contains(Lower(text), BUY) THEN "ra_216"
    ELSE IF Contains(Lower(text), SELL) THEN "ra_218"
    ELSE "ra_220"

Branch ==
    /\ pc = "ra_215"
    /\ pc' = BranchTarget(recommendation)
    /\ trace' = Append(trace, Event("branch", "run_analysis",
                                    <<BranchTarget(recommendation)>>))
    /\ UNCHANGED <<tracer, constructed, fields, tags, stack, args, agentLocals,
                   recommendation, exc, runs, apiCalls, output>>

CallExecuteBuyOrder ==
    /\ pc = "ra_216"
    /\ Push("execute_buy_order")
    /\ trace' = Append(trace, Event("call", "execute_buy_order", <<stock_symbol>>))
    /\ pc' = "execute_buy_order"
    /\ UNCHANGED <<tracer, constructed, fields, tags, args, agentLocals,
                   recommendation, exc, runs, apiCalls, output>>

ReturnExecuteBuyOrder ==
    /\ pc = "execute_buy_order"
    /\ Pop
    /\ output' = Append(output, Line("Executing buy order for",
                                     trace[Len(trace)].arg))
    /\ trace' = trace \o << Event("print", "execute_buy_order", <<"order">>),
                            Event("return", "execute_buy_order", <<>>) >>
    /\ pc' = "ra_end"
    /\ UNCHANGED <<tracer, constructed, fields, tags, args, agentLocals,
                   recommendation, exc, runs, apiCalls>>

CallExecuteSellOrder ==
    /\ pc = "ra_218"
    /\ Push("execute_sell_order")
    /\ trace' = Append(trace, Event("call", "execute_sell_order", <<stock_symbol>>))
    /\ pc' = "execute_sell_order"
    /\ UNCHANGED <<tracer, constructed, fields, tags, args, agentLocals,
                   recommendation, exc, runs, apiCalls, output>>

ReturnExecuteSellOrder ==
    /\ pc = "execute_sell_order"
    /\ Pop
    /\ output' = Append(output, Line("Executing sell order for",
                                     trace[Len(trace)].arg))
    /\ trace' = trace \o << Event("print", "execute_sell_order", <<"order">>),
                            Event("return", "execute_sell_order", <<>>) >>
    /\ pc' = "ra_end"
    /\ UNCHANGED <<tracer, constructed, fields, tags, args, agentLocals,
                   recommendation, exc, runs, apiCalls>>

\* an if / elif without the else branch
PrintNoActionMissing ==
    /\ pc = "ra_220"
    /\ pc' = "ra_end"
    /\ UNCHANGED <<tracer, constructed, fields, tags, stack, args, agentLocals,
                   recommendation, exc, runs, observed>>

PrintNoAction ==
    /\ pc = "ra_220"
    /\ output' = Append(output,
                    Line("No action taken based on the current recommendation.", <<>>))
    /\ trace' = Append(trace, Event("print", "run_analysis", <<"no action">>))
    /\ pc' = "ra_end"
    /\ UNCHANGED <<tracer, constructed, fields, tags, stack, args, agentLocals,
                   recommendation, exc, runs, apiCalls>>

\* run_analysis drops the quote before it returns
ReturnRunAnalysisDiscarding ==
    /\ pc = "ra_end"
    /\ Pop
    /\ pc' = "idle"
    /\ stock_symbol' = ""
    /\ risk_tolerance' = NoText
    /\ recommendation' = NoText
    /\ stock_data' = EmptyDict
    /\ UNCHANGED <<tracer, constructed, news_sentiment, economic_indicators,
                   tags, agentLocals, exc, runs, observed>>

\* run_analysis falls off its end: its frame and locals are gone
ReturnRunAnalysis ==
    /\ pc = "ra_end"
    /\ Pop
    /\ pc' = "idle"
    /\ stock_symbol' = ""
    /\ risk_tolerance' = NoText
    /\ recommendation' = NoText
    /\ UNCHANGED <<tracer, constructed, fields, tags, agentLocals, exc, runs,
                   observed>>

(***************************************************************************)
(* The specification.                                                      *)
(***************************************************************************)
Next ==
    \/ TracerStart
    \/ Construct
    \/ \E analysis \in Analyses : CallRunAnalysis(analysis[1], analysis[2])
    \/ TracerStop
    \/ CallFinancialAdvisorAgent
    \/ CallFetchStockData
    \/ ReturnFetchStockData
    \/ CallFetchNewsArticles
    \/ ReturnFetchNewsArticles
    \/ CallAnalyzeSentiment
    \/ ReturnAnalyzeSentiment
    \/ RaiseAnalyzeSentiment
    \/ ComputeNewsSentiment
    \/ CallFetchEconomicIndicators
    \/ ReturnFetchEconomicIndicators
    \/ CallAnalyzeMarketConditions
    \/ ReturnAnalyzeMarketConditions
    \/ RaiseAnalyzeMarketConditions
    \/ CallGenerateInvestmentRecommendation
    \/ ReturnGenerateInvestmentRecommendation
    \/ RaiseGenerateInvestmentRecommendation
    \/ ReturnFinancialAdvisorAgent
    \/ PrintAnalysis
    \/ Branch
    \/ CallExecuteBuyOrder
    \/ ReturnExecuteBuyOrder
    \/ CallExecuteSellOrder
    \/ ReturnExecuteSellOrder
    \/ PrintNoAction
    \/ ReturnRunAnalysis

Spec == Init /\ [][Next]_vars

TypeOK ==
    /\ tracer \in {"created", "started", "stopped"}
    /\ constructed \in BOOLEAN
    /\ runs \in 0..MaxRuns
    /\ stock_run \in 0..runs /\ news_run \in 0..runs /\ econ_run \in 0..runs
    /\ exc \in {"none", "analyze_sentiment", "analyze_market_conditions",
                "generate_investment_recommendation", "ZeroDivisionError"}
    /\ Len(stack) <= 3

(***************************************************************************)
(* Vocabulary of the properties.                                           *)
(***************************************************************************)
Shape(t) == [i \in 1..Len(t) |-> <<t[i].ev, t[i].op>>]
IsPrefix(a, b) == Len(a) <= Len(b) /\ SubSeq(b, 1, Len(a)) = a

\* run_analysis has executed its last statement, or has returned normally
Completed == runs >= 1 /\ exc = "none" /\ pc \in {"ra_end", "idle"}
\* run_analysis has returned normally to the notebook cell
Returned == runs >= 1 /\ exc = "none" /\ pc = "idle"
\* an exception has left run_analysis
Failed == exc # "none"

CallsOf(op) == SelectSeq(trace, LAMBDA e : e.ev = "call" /\ e.op = op)
Happened(ev, op) == \E i \in 1..Len(trace) : trace[i].ev = ev /\ trace[i].op = op

BuyLine == "Executing buy order for"
SellLine == "Executing sell order for"
NoActionLine == "No action taken based on the current recommendation."
LinesOf(texts) == {i \in 1..Len(output) : output[i].text \in texts}

\* what the completed run printed as its symbol, quote and recommendation
PrintedSymbol == output[1].arg[1]
PrintedQuote == output[2].arg[1]
PrintedRecommendation == output[5].arg[1]
\* the arguments run_analysis handed to the agent
PassedSymbol == trace[1].arg[1]
PassedRisk == trace[1].arg[2]

StepOps == {"fetch_stock_data", "fetch_news_articles", "analyze_sentiment",
            "fetch_economic_indicators", "analyze_market_conditions",
            "generate_investment_recommendation",
            "execute_buy_order", "execute_sell_order"}

AgentSteps ==
    << <<"call", "financial_advisor_agent">>,
       <<"call", "fetch_stock_data">>, <<"return", "fetch_stock_data">>,
       <<"call", "fetch_news_articles">>, <<"return", "fetch_news_articles">>,
       <<"call", "analyze_sentiment">>, <<"return", "analyze_sentiment">>,
       <<"call", "analyze_sentiment">>, <<"return", "analyze_sentiment">>,
       <<"call", "analyze_sentiment">>, <<"return", "analyze_sentiment">>,
       <<"call", "fetch_economic_indicators">>,
       <<"return", "fetch_economic_indicators">>,
       <<"call", "analyze_market_conditions">>,
       <<"return", "analyze_market_conditions">>,
       <<"call", "generate_investment_recommendation">>,
       <<"return", "generate_investment_recommendation">>,
       <<"return", "financial_advisor_agent">> >>

BuyTail == << <<"call", "execute_buy_order">>, <<"print", "execute_buy_order">>,
              <<"return", "execute_buy_order">> >>
SellTail == << <<"call", "execute_sell_order">>, <<"print", "execute_sell_order">>,
               <<"return", "execute_sell_order">> >>
NoActionTail == << <<"print", "run_analysis">> >>
Tails == {BuyTail, SellTail, NoActionTail}

RunSteps(tail) ==
    AgentSteps \o << <<"print", "run_analysis">>, <<"branch", "run_analysis">> >>
    \o tail

(***************************************************************************)
(* C1: every call of run_analysis performs its steps in one fixed order:   *)
(* stock-data fetch, scoring of the three headlines, economic-indicator    *)
(* fetch, market-outlook call, recommendation call, (the analysis          *)
(* printout,) the keyword branch and last the print the branch selects; a  *)
(* failed run performs a prefix of that order; a step begins only after    *)
(* the previous one has returned, and at most one step is in progress.     *)
(***************************************************************************)
C1_FixedOrder ==
    LET shape == Shape(trace)
        n == Len(shape)
        raised == n > 0 /\ trace[n].ev = "raise"
        body == IF raised THEN SubSeq(shape, 1, n - 1) ELSE shape
    IN  /\ \E tail \in Tails : IsPrefix(body, RunSteps(tail))
        /\ raised => n >= 2 /\ shape[n - 1] = <<"call", trace[n].op>>
        /\ Completed => \E tail \in Tails : shape = RunSteps(tail)
        /\ Cardinality({i \in 1..Len(stack) : stack[i] \in StepOps}) <= 1
        /\ \A i \in 1..Len(stack) :
              stack[i] \in StepOps =>
                  /\ i = Len(stack)
                  /\ n > 0 /\ shape[n] = <<"call", stack[i]>>
        /\ (n > 0 /\ shape[n][1] = "call" /\ shape[n][2] \in StepOps)
              => stack # <<>> /\ stack[Len(stack)] = shape[n][2]

C1_Witness == pc = "ra_end" /\ Shape(trace) = RunSteps(SellTail)

(***************************************************************************)
(* C2 as stated: every completed run ends in exactly one of two printed    *)
(* outcomes, the buy-order message or the sell-order message.              *)
(***************************************************************************)
C2_TwoOutcomes ==
    Completed => Cardinality(LinesOf({BuyLine, SellLine})) = 1

(***************************************************************************)
(* C2 amended: every completed run ends in exactly one of three printed    *)
(* outcomes (buy-order, sell-order or no-action message), it is the last   *)
(* line printed, and before run_analysis reaches its end none is printed.  *)
(***************************************************************************)
C2_ThreeOutcomes ==
    LET outcomes == LinesOf({BuyLine, SellLine, NoActionLine})
    IN  /\ Completed => outcomes = {Len(output)} /\ Len(output) = 6
        /\ ~Completed => outcomes = {}

C2_Witness == Completed /\ LinesOf({NoActionLine}) # {} /\ runs = 2

(***************************************************************************)
(* C3 as stated: a completed run has made exactly two chat-completion      *)
(* requests, by analyze_market_conditions and then by                      *)
(* generate_investment_recommendation, with different prompts, and the     *)
(* second prompt contains the text the first request returned and the      *)
(* caller's risk tolerance.                                                *)
(***************************************************************************)
C3_SecondPromptHasReturnedText ==
    Completed =>
        /\ Len(apiCalls) = 2
        /\ apiCalls[1].caller = "analyze_market_conditions"
        /\ apiCalls[2].caller = "generate_investment_recommendation"
        /\ apiCalls[1].prompt # apiCalls[2].prompt
        /\ Contains(apiCalls[2].prompt, apiCalls[1].content)
        /\ Contains(apiCalls[2].prompt, PassedRisk)

(***************************************************************************)
(* C3 amended: the requests of a run are never more than one by            *)
(* analyze_market_conditions followed by one by                            *)
(* generate_investment_recommendation (no retry); a completed run has made *)
(* both, with different prompts, and the second prompt contains the first  *)
(* request's text with its leading and trailing whitespace stripped, and   *)
(* the caller's risk tolerance.                                            *)
(***************************************************************************)
C3_SecondPromptHasStrippedText ==
    /\ IsPrefix([i \in 1..Len(apiCalls) |-> apiCalls[i].caller],
                <<"analyze_market_conditions",
                  "generate_investment_recommendation">>)
    /\ \A i \in 1..Len(apiCalls) :
          apiCalls[i].answered \/ (i = Len(apiCalls) /\ pc = apiCalls[i].caller)
          \/ exc = apiCalls[i].caller
    /\ Completed =>
        /\ Len(apiCalls) = 2
        /\ apiCalls[1].answered /\ apiCalls[2].answered
        /\ apiCalls[1].prompt # apiCalls[2].prompt
        /\ Contains(apiCalls[2].prompt, Strip(apiCalls[1].content))
        /\ Contains(apiCalls[2].prompt, PassedRisk)

C3_Witness ==
    /\ Completed
    /\ Len(apiCalls) = 2
    /\ Strip(apiCalls[1].content) # apiCalls[1].content
    /\ Strip(apiCalls[1].content) # <<>>

(***************************************************************************)
(* C4: a failure of analyze_sentiment or of either chat-completion call    *)
(* leaves run_analysis: after it no frame is in progress, the failing call *)
(* is the last event of the run, no later step of the pipeline has been    *)
(* performed, nothing has been printed and no order method was called.     *)
(***************************************************************************)
LaterOps(op) ==
    CASE op = "analyze_sentiment" ->
            {"fetch_economic_indicators", "analyze_market_conditions",
             "generate_investment_recommendation",
             "execute_buy_order", "execute_sell_order"}
      [] op = "analyze_market_conditions" ->
            {"generate_investment_recommendation",
             "execute_buy_order", "execute_sell_order"}
      [] OTHER -> {"execute_buy_order", "execute_sell_order"}

C4_FailurePropagates ==
    Failed =>
        /\ pc = "idle"
        /\ stack = <<>>
        /\ output = <<>>
        /\ trace # <<>>
        /\ trace[Len(trace)].ev = "raise" /\ trace[Len(trace)].op = exc
        /\ \A i \in 1..Len(trace) :
              /\ trace[i].op \notin LaterOps(exc)
              /\ trace[i].ev \notin {"print", "branch"}
              /\ trace[i].ev = "raise" => i = Len(trace)
        /\ ~Happened("return", "financial_advisor_agent")

C4_Witness ==
    /\ exc = "generate_investment_recommendation"
    /\ Len(apiCalls) = 2
    /\ runs = 2

(***************************************************************************)
(* C5 as stated: once run_analysis has returned, no field of the object    *)
(* holds the stock quote record the run produced and printed.              *)
(***************************************************************************)
C5_QuoteDiscarded ==
    Returned =>
        /\ stock_data # PrintedQuote
        /\ news_sentiment # PrintedQuote
        /\ economic_indicators # PrintedQuote

(***************************************************************************)
(* C5 amended: the stock quote record of a run is printed exactly once and *)
(* is not discarded: once run_analysis has returned, self.stock_data still *)
(* holds the record that run produced and printed, for the run's symbol.   *)
(***************************************************************************)
C5_QuoteRetained ==
    /\ Cardinality(LinesOf({"Stock Data:"})) <= 1
    /\ Returned =>
        /\ LinesOf({"Stock Data:"}) = {2}
        /\ stock_data = PrintedQuote
        /\ stock_data # EmptyDict
        /\ stock_data.symbol = PrintedSymbol
        /\ stock_run = runs

C5_Witness == Returned /\ runs = 2 /\ stock_data.price = 25958

(***************************************************************************)
(* C6: tracer.start() precedes every traced call, tracer.stop() is called  *)
(* only after run_analysis has finished, and no traced call is made or in  *)
(* progress once the tracer is stopped.                                    *)
(***************************************************************************)
C6_TracerBrackets ==
    /\ (stack # <<>> \/ trace # <<>> \/ runs > 0 \/ constructed)
          => tracer # "created"
    /\ stack # <<>> => tracer = "started"
    /\ tracer = "stopped" =>
          /\ pc = "idle"
          /\ runs >= 1
          /\ exc = "none"
          /\ trace # <<>>
          /\ \E tail \in Tails : Shape(trace) = RunSteps(tail)

C6_Witness == tracer = "stopped" /\ Happened("call", "execute_buy_order")

(***************************************************************************)
(* C7: a run executes at most one order, for the symbol passed to          *)
(* run_analysis; execute_buy_order runs exactly when the lower-cased       *)
(* recommendation contains "buy", execute_sell_order exactly when it       *)
(* contains "sell" and not "buy", and the no-action message is printed     *)
(* exactly when it contains neither.                                       *)
(***************************************************************************)
C7_AtMostOneOrder ==
    LET buys == CallsOf("execute_buy_order")
        sells == CallsOf("execute_sell_order")
    IN  /\ Len(buys) + Len(sells) <= 1
        /\ \A i \in 1..Len(buys) : buys[i].arg = <<PassedSymbol>>
        /\ \A i \in 1..Len(sells) : sells[i].arg = <<PassedSymbol>>
        /\ Completed =>
              LET low == Lower(PrintedRecommendation)
                  hasBuy == \E i \in 1..Len(low) :
                               i + 2 <= Len(low) /\ low[i] = "b"
                               /\ low[i + 1] = "u" /\ low[i + 2] = "y"
                  hasSell == \E i \in 1..Len(low) :
                                i + 3 <= Len(low) /\ low[i] = "s"
                                /\ low[i + 1] = "e" /\ low[i + 2] = "l"
                                /\ low[i + 3] = "l"
              IN  /\ (Len(buys) = 1) <=> hasBuy
                  /\ (Len(sells) = 1) <=> (hasSell /\ ~hasBuy)
                  /\ (LinesOf({NoActionLine}) # {}) <=> (~hasBuy /\ ~hasSell)
                  /\ (LinesOf({BuyLine}) # {}) <=> (Len(buys) = 1)
                  /\ (LinesOf({SellLine}) # {}) <=> (Len(sells) = 1)
                  /\ \A j \in LinesOf({BuyLine, SellLine}) :
                        output[j].arg = <<PrintedSymbol>>
                  /\ PrintedSymbol = PassedSymbol

C7_Witness ==
    /\ Completed
    /\ Contains(Lower(PrintedRecommendation), BUY)
    /\ Contains(Lower(PrintedRecommendation), SELL)
    /\ ~Contains(PrintedRecommendation, BUY)
    /\ Len(CallsOf("execute_buy_order")) = 1

(***************************************************************************)
(* C8: fetch_news_articles returns exactly three headlines for every       *)
(* symbol; analyze_sentiment is called once per headline, in list order,   *)
(* all before fetch_economic_indicators; news_sentiment is set to the sum  *)
(* of the three scores divided by three; line 200 never divides by zero.   *)
(***************************************************************************)
C8_ThreeHeadlines ==
    LET scorings == CallsOf("analyze_sentiment")
        inAgent == Len(stack) >= 2 /\ stack[2] = "financial_advisor_agent"
    IN  /\ (inAgent /\ Happened("return", "fetch_news_articles")) =>
              /\ Len(news_articles) = 3
              /\ \A i \in 1..3 : news_articles[i][1] = stock_symbol
              /\ \A i, j \in 1..3 : i # j => news_articles[i] # news_articles[j]
              /\ Len(scorings) <= 3
              /\ \A i \in 1..Len(scorings) : scorings[i].arg = <<news_articles[i]>>
              /\ Len(sentiment_scores) <= Len(scorings)
              /\ Len(scorings) <= Len(sentiment_scores) + 1
        /\ \A k \in 1..Len(trace) :
              (trace[k].ev = "call" /\ trace[k].op = "fetch_economic_indicators") =>
                  /\ Len(scorings) = 3
                  /\ Cardinality({i \in 1..(k - 1) :
                                     /\ trace[i].ev = "return"
                                     /\ trace[i].op = "analyze_sentiment"}) = 3
        /\ pc = "agent_201" =>
              /\ Len(sentiment_scores) = 3
              /\ news_sentiment # EmptyDict
              /\ 3 * news_sentiment.float =
                    sentiment_scores[1] + sentiment_scores[2] + sentiment_scores[3]
              /\ news_run = runs
        /\ exc # "ZeroDivisionError"

C8_Witness ==
    /\ pc = "agent_201"
    /\ sentiment_scores = <<75, -75, -75>>
    /\ news_sentiment = Float(-25)
    /\ stock_symbol = "MSFT"

(***************************************************************************)
(* C9: a failed run is not rolled back.  After a failure at an LLM call    *)
(* the three fields hold the failed run's values; after a failure at       *)
(* sentiment scoring stock_data holds the failed run's record while        *)
(* news_sentiment and economic_indicators were last assigned by an earlier *)
(* run (or by __init__).                                                   *)
(***************************************************************************)
C9_NoRollback ==
    /\ exc \in {"analyze_market_conditions", "generate_investment_recommendation"} =>
          LET sent == CallsOf("analyze_market_conditions")[1].arg
          IN  /\ stock_run = runs /\ news_run = runs /\ econ_run = runs
              /\ stock_data = sent[1]
              /\ news_sentiment = sent[2]
              /\ economic_indicators = sent[3]
              /\ stock_data.symbol = PassedSymbol
    /\ exc = "analyze_sentiment" =>
          /\ stock_run = runs
          /\ stock_data # EmptyDict
          /\ stock_data.symbol = PassedSymbol
          /\ news_run < runs /\ econ_run < runs
          /\ news_run = econ_run
          /\ (news_run = 0) <=> (news_sentiment = EmptyDict)
          /\ (econ_run = 0) <=> (economic_indicators = EmptyDict)

C9_Witness ==
    /\ exc = "analyze_sentiment"
    /\ stock_run = 2
    /\ news_run = 1
    /\ econ_run = 1
    /\ news_sentiment # EmptyDict

====
